---- MODULE Spec2Model ----
(***************************************************************************)
(* Job-Scraper: the seen-job store (storage.py), the poll cycle            *)
(* (main.py, JobTracker.check_for_new_jobs) run by the background task and *)
(* by the /check handler on one asyncio event loop, and the notifier call. *)
(*                                                                         *)
(* Text is a sequence of one-character strings.  A datetime is a natural   *)
(* number of half-second ticks; isoformat() turns it into the text the     *)
(* store keeps and cleanup_old_entries compares.                           *)
(***************************************************************************)
EXTENDS Integers, Sequences, FiniteSets, TLC

\* ------------------------------------------------------------------ bounds
\* Longest batch of postings one fetch returns.
MaxJobs == 2
\* Number of clock ticks the model lets pass after start-up.
MaxTicks == 2
\* Largest retention (in ticks) cleanup_old_entries is called with.
MaxRetention == 2

\* ------------------------------------------------------------------ text
\* str.lower() on one character of the alphabet of the model.
LowerChar(c) ==
    CASE c = "D" -> "d"
      [] c = "C" -> "c"
      [] OTHER -> c

\* str.lower()
lower(text) == [i \in 1..Len(text) |-> LowerChar(text[i])]

\* str.strip(): leading and trailing blanks removed.
RECURSIVE lstrip(_)
lstrip(text) ==
    IF text # <<>> /\ Head(text) = " " THEN lstrip(Tail(text)) ELSE text

RECURSIVE rstrip(_)
rstrip(text) ==
    IF text # <<>> /\ text[Len(text)] = " "
    THEN rstrip(SubSeq(text, 1, Len(text) - 1))
    ELSE text

strip(text) == rstrip(lstrip(text))

\* Python's `needle in haystack` on str: substring containment.
str_in(needle, haystack) ==
    \E i \in 0..(Len(haystack) - Len(needle)) :
        SubSeq(haystack, i + 1, i + Len(needle)) = needle

\* Code-point order of the characters a timestamp is made of ('.' < '0').
CharOrder == <<".", "0", "1", "2", "3", "4", "5", "6", "7", "8", "9">>
Ord(c) == CHOOSE i \in 1..Len(CharOrder) : CharOrder[i] = c

\* Python's str > str: lexicographic by code point, a proper prefix is less.
RECURSIVE str_gt(_, _)
str_gt(a, b) ==
    IF a = <<>> THEN FALSE
    ELSE IF b = <<>> THEN TRUE
    ELSE IF Head(a) # Head(b) THEN Ord(Head(a)) > Ord(Head(b))
    ELSE str_gt(Tail(a), Tail(b))

\* ------------------------------------------------------------------ time
Digit(n) == CharOrder[n + 2]

\* datetime.isoformat(): fixed-width fields, and the fraction only when it
\* is not zero.  Tick t is second t \div 2 plus t % 2 half seconds.
isoformat(t) ==
    <<Digit((t \div 2) \div 10), Digit((t \div 2) % 10)>>
        \o (IF t % 2 = 0 THEN <<>> ELSE <<".", "5">>)

\* The first instant of the model: late enough for now - retention >= 0.
Epoch == MaxRetention
LastTick == Epoch + MaxTicks
Instants == 0..LastTick

\* ------------------------------------------------------------------ state
VARIABLES
    \* JobTracker / JobStorage (one process)
    keywords,               \* JobTracker.keywords, cleaned
    notifications_enabled,  \* JobTracker.notifications_enabled
    seen_jobs,              \* JobStorage.seen_jobs: identity -> timestamp text
    file,                   \* content of seen_jobs.json on disk
    clock,                  \* datetime.now()
    \* one entry per coroutine running check_for_new_jobs
    pc,                     \* where the coroutine is suspended
    new_jobs,               \* its new_jobs list
    sent,                   \* how many of new_jobs it has alerted
    result,                 \* what its last finished cycle returned
    \* observation of the run (not program state)
    cycle,                  \* per coroutine: what its current cycle did
    lastFetch,              \* the latest batch that reached the dedup loop
    life,                   \* per identity, within this process lifetime
    lastOp,                 \* the latest call on the store
    prevOp                  \* the call before it

vars == <<keywords, notifications_enabled, seen_jobs, file, clock,
          pc, new_jobs, sent, result, cycle, lastFetch, life, lastOp, prevOp>>

\* ------------------------------------------------------------------ store
EmptyMap == [id \in {} |-> <<>>]

Range(s) == {s[i] : i \in 1..Len(s)}

\* The persisted form.  "absent": no file.  "corrupt": a file json.load
\* rejects (empty or cut short).  "dict": the current format.  "list": the
\* legacy format, a plain list of identities.  "scalar": JSON that is
\* neither (null, a number); the field dict holds what json.load returns.
Absent == [kind |-> "absent", dict |-> EmptyMap, list |-> <<>>]
Corrupt == [kind |-> "corrupt", dict |-> EmptyMap, list |-> <<>>]
DictFile(map) == [kind |-> "dict", dict |-> map, list |-> <<>>]
ListFile(ids) == [kind |-> "list", dict |-> EmptyMap, list |-> ids]

\* What json.load returns for null or a number: a value that is no dict.
\* It stands in the place of the mapping under a key no identity has.
NullData == [k \in {<<"null">>} |-> <<>>]
ScalarFile == [kind |-> "scalar", dict |-> NullData, list |-> <<>>]

\* `job_id in data` and `data[job_id] = ...` raise TypeError on such a value.
not_a_mapping(data) == data = NullData

\* json.dump(self.seen_jobs, f)
json_dump(map) == DictFile(map)

\* A load that makes an entry out of a file it cannot parse.
load_seen_jobs_salvaging(f, now) ==
    CASE f.kind = "absent" -> EmptyMap
      [] f.kind = "corrupt" -> [id \in {<<>>} |-> isoformat(now)]
      [] f.kind = "list" -> [id \in Range(f.list) |-> isoformat(now)]
      [] OTHER -> f.dict

\* A load that knows the current format only.
load_seen_jobs_strict(f, now) == IF f.kind = "dict" THEN f.dict ELSE EmptyMap

\* JobStorage.load_seen_jobs at time `now`.
load_seen_jobs(f, now) ==
    CASE f.kind = "absent" -> EmptyMap
      [] f.kind = "corrupt" -> EmptyMap
      [] f.kind = "list" -> [id \in Range(f.list) |-> isoformat(now)]
      [] OTHER -> f.dict

\* What one attempt to write the file can do: "ok"; "open_failed", open()
\* raises and the file is as before; "write_failed", open(.., 'w') has
\* truncated the file and the dump raises before it is complete.
FlushOutcomes == {"ok", "open_failed", "write_failed"}

\* A flush that never reaches the file.
save_seen_jobs_lost(map, f, outcome) == f

\* JobStorage.save_seen_jobs: the new content of the file.
save_seen_jobs(map, f, outcome) ==
    CASE outcome = "ok" -> json_dump(map)
      [] outcome = "open_failed" -> f
      [] OTHER -> Corrupt

\* A store that recognises nothing.
job_exists_never(map, job_id) == FALSE

\* JobStorage.job_exists
job_exists(map, job_id) == job_id \in DOMAIN map

\* self.seen_jobs[job_id] = datetime.now().isoformat()
dict_set(map, key, value) ==
    [k \in DOMAIN map \cup {key} |-> IF k = key THEN value ELSE map[k]]

\* A save_job that writes the file and leaves self.seen_jobs alone, and one
\* that keys the entry by identity and timestamp.
save_job_file_only(st, job_id, now, outcome) ==
    LET map == dict_set(st.seen_jobs, job_id, isoformat(now))
    IN [seen_jobs |-> st.seen_jobs, file |-> save_seen_jobs(map, st.file, outcome)]
save_job_stamped(st, job_id, now, outcome) ==
    LET map == dict_set(st.seen_jobs, job_id \o isoformat(now), isoformat(now))
    IN [seen_jobs |-> map, file |-> save_seen_jobs(map, st.file, outcome)]

\* A save_job that takes the entry back when its flush fails.
save_job_rollback(st, job_id, now, outcome) ==
    LET map == dict_set(st.seen_jobs, job_id, isoformat(now))
    IN [seen_jobs |-> IF outcome = "ok" THEN map ELSE st.seen_jobs,
        file |-> save_seen_jobs(map, st.file, outcome)]

\* A save_job that starts the mapping afresh with the one entry.
save_job_single(st, job_id, now, outcome) ==
    LET map == [k \in {job_id} |-> isoformat(now)]
    IN [seen_jobs |-> map, file |-> save_seen_jobs(map, st.file, outcome)]

\* A save_job that flushes before it assigns the entry.
save_job_flush_first(st, job_id, now, outcome) ==
    LET map == dict_set(st.seen_jobs, job_id, isoformat(now))
    IN [seen_jobs |-> map,
        file |-> save_seen_jobs(st.seen_jobs, st.file, outcome)]

\* JobStorage.save_job: the store and the file after the call.
save_job(st, job_id, now, outcome) ==
    LET map == dict_set(st.seen_jobs, job_id, isoformat(now))
    IN [seen_jobs |-> map, file |-> save_seen_jobs(map, st.file, outcome)]

\* A sweep that flushes whether or not it removed anything.
cleanup_old_entries_always(st, hours, now, outcome) ==
    LET cutoff_str == isoformat(now - hours)
        kept == {id \in DOMAIN st.seen_jobs : str_gt(st.seen_jobs[id], cutoff_str)}
        map == [id \in kept |-> st.seen_jobs[id]]
    IN [seen_jobs |-> map,
        file |-> save_seen_jobs(map, st.file, outcome),
        removed |-> Cardinality(DOMAIN st.seen_jobs) - Cardinality(kept)]

\* JobStorage.cleanup_old_entries(hours) at time `now`.
cleanup_old_entries(st, hours, now, outcome) ==
    LET cutoff_str == isoformat(now - hours)
        kept == {id \in DOMAIN st.seen_jobs : str_gt(st.seen_jobs[id], cutoff_str)}
        map == [id \in kept |-> st.seen_jobs[id]]
        removed == Cardinality(DOMAIN st.seen_jobs) - Cardinality(kept)
    IN [seen_jobs |-> map,
        file |-> IF removed > 0 THEN save_seen_jobs(map, st.file, outcome)
                 ELSE st.file,
        removed |-> removed]

Storage == [seen_jobs |-> seen_jobs, file |-> file]

\* ------------------------------------------------------------------ postings
\* dict.get(key, default): the default only when the key is missing.
dict_get(d, key, default) == IF key \in DOMAIN d THEN d[key] ELSE default

tDriver == <<"D", "r", "i", "v", "e", "r">>
wDriver == <<"d", "r", "i", "v", "e", "r">>
tChef == <<"C", "h", "e", "f">>
url1 == <<"x", "/", "1">>
url2 == <<"x", "/", "2">>

\* Postings as parse_job_listings builds them: title and description are
\* always set (either may be empty); url is set to a non-empty address or
\* left out (a link without href).  "Driver" at x/1, "Chef" at x/2, and a
\* "Chef" without address whose description says "driver".
Postings ==
    { [title |-> tDriver, url |-> url1, description |-> <<>>],
      [title |-> tChef, url |-> url2, description |-> <<>>],
      [title |-> tChef, description |-> wDriver] }

\* Every identity a posting of the model can have.
Ids == {url1, url2, tDriver, tChef, <<>>}

SeqsUpTo(S, n) == UNION {[1..k -> S] : k \in 0..n}

\* What fetch_page returns: None, or a page (given by the postings
\* parse_job_listings extracts from it).
None == [content |-> FALSE, listings |-> <<>>]
Page(listings) == [content |-> TRUE, listings |-> listings]
Pages == {Page(b) : b \in SeqsUpTo(Postings, MaxJobs)}

\* The dicts check_for_new_jobs can be handed with the keys in every state
\* job.get distinguishes: url missing, url '' and url set, title '' or not.
DictPostings ==
    {[title |-> t, description |-> wDriver] : t \in {<<>>, tDriver}}
        \cup {[title |-> t, url |-> u, description |-> wDriver] :
                  t \in {<<>>, tDriver}, u \in {<<>>, url1}}
DictPages == {Page(<<p>>) : p \in DictPostings}

\* Postings a step of check_for_new_jobs raises on.  raises = "filter": the
\* title is not text (a number), so text.lower() in contains_keywords
\* raises AttributeError.  raises = "dedup": the url is unhashable (a list),
\* so `job_id in self.seen_jobs` raises TypeError.
BadPostings ==
    { [title |-> tDriver, url |-> url2, description |-> <<>>, raises |-> "filter"],
      [title |-> tDriver, url |-> url2, description |-> <<>>, raises |-> "dedup"] }
MalformedPages == {Page(b) : b \in SeqsUpTo(Postings \cup BadPostings, MaxJobs)}

\* A scraper that answers a failed fetch with a posting it remembers.
scrape_jobs_stale(html) ==
    IF html.content THEN html.listings
    ELSE <<[title |-> tDriver, url |-> url1, description |-> <<>>]>>

\* ExpatriatesScraper.scrape_jobs, given what fetch_page returned.
scrape_jobs(html) == IF html.content THEN html.listings ELSE <<>>

\* ------------------------------------------------------------------ tracker
\* JobTracker.__init__: the keyword list from JOB_KEYWORDS.split(',').
DefaultKeywords == <<wDriver>>

clean_keywords(raw) ==
    LET kept == SelectSeq(raw, LAMBDA k : strip(k) # <<>>)
        cleaned == [i \in 1..Len(kept) |-> lower(strip(kept[i]))]
    IN IF cleaned = <<>> THEN DefaultKeywords ELSE cleaned

\* JOB_KEYWORDS unset (''.split(',') is ['']) and JOB_KEYWORDS=" Driver, ".
RawKeywords ==
    { << <<>> >>,
      << <<" ">> \o tDriver, <<" ">> >> }

\* A matcher that stops at the first keyword it finds.
contains_keywords_first(kws, text) ==
    IF text = <<>> THEN <<>>
    ELSE LET text_lower == lower(text)
             hits == SelectSeq(kws, LAMBDA k : k # <<>> /\ str_in(k, text_lower))
         IN IF hits = <<>> THEN <<>> ELSE <<Head(hits)>>

\* JobTracker.contains_keywords
contains_keywords(kws, text) ==
    IF text = <<>> THEN <<>>
    ELSE LET text_lower == lower(text)
         IN SelectSeq(kws, LAMBDA k : k # <<>> /\ str_in(k, text_lower))

\* A filter that looks at the title only.
all_keywords_title(kws, job) ==
    Range(contains_keywords(kws, dict_get(job, "title", <<>>)))

\* check_for_new_jobs, "Filter by keywords": all_keywords of one job.
all_keywords(kws, job) ==
    Range(contains_keywords(kws, dict_get(job, "title", <<>>)))
        \cup Range(contains_keywords(kws, dict_get(job, "description", <<>>)))

with_matched(job, kw) ==
    [k \in DOMAIN job \cup {"matched_keywords"} |->
        IF k = "matched_keywords" THEN kw ELSE job[k]]

matching_jobs(kws, jobs) ==
    LET tagged == [i \in 1..Len(jobs) |-> with_matched(jobs[i], all_keywords(kws, jobs[i]))]
    IN SelectSeq(tagged, LAMBDA j : j.matched_keywords # {})

\* check_for_new_jobs: job_id = job.get('url', job.get('title', ''))
job_identity(job) == dict_get(job, "url", dict_get(job, "title", <<>>))

\* check_for_new_jobs, "Check for new jobs": the loop over matching_jobs.
\* outcomes[i] is what the flush of the i-th save_job does.
RECURSIVE dedup(_, _, _, _, _)
dedup(st, jobs, outcomes, now, acc) ==
    IF jobs = <<>> THEN [seen_jobs |-> st.seen_jobs, file |-> st.file, new_jobs |-> acc]
    ELSE LET job == Head(jobs)
             job_id == job_identity(job)
         IN IF ~job_exists(st.seen_jobs, job_id)
            THEN dedup(save_job(st, job_id, now, Head(outcomes)),
                       Tail(jobs), Tail(outcomes), now, Append(acc, job))
            ELSE dedup(st, Tail(jobs), outcomes, now, acc)

\* ------------------------------------------------------------------ start
\* The coroutines that run check_for_new_jobs on the event loop:
\* background_task and the /check handler (manual_check).
Tasks == {"background", "manual"}

\* seen_jobs.json when the process starts.
InitFiles ==
    { Absent,
      ListFile(<<url2, tChef>>) }

\* The configurations of the model, and per configuration and fetch result
\* the list matching_jobs the cycle works on.
KeywordConfigs == {clean_keywords(raw) : raw \in RawKeywords}
Matching ==
    [kws \in KeywordConfigs |->
        [html \in Pages \cup DictPages \cup MalformedPages \cup {None} |->
            matching_jobs(kws, scrape_jobs(html))]]

NoCycle == [fetched |-> "pending", start |-> {}, ids |-> {}, unseen |-> {},
            recorded |-> {}, failed |-> 0]
NoFetch == [task |-> "none", jobs |-> <<>>, before |-> {}, recorded |-> {},
            repeat |-> FALSE]
NoLife == [count |-> [id \in Ids |-> 0],
           first |-> [id \in Ids |-> "none"],
           late |-> {},
           added |-> {}]
NoOp == [op |-> "none", id |-> <<>>, flush |-> "none", found |-> FALSE,
         hours |-> 0, now |-> 0, before |-> EmptyMap,
         memAfter |-> 0, fileAfter |-> 0]

\* Number of entries of the persisted form.
file_count(f) ==
    CASE f.kind = "dict" -> Cardinality(DOMAIN f.dict)
      [] f.kind = "list" -> Len(f.list)
      [] OTHER -> 0

\* A fresh process: JobTracker() reads its configuration and the store
\* loads the file; no coroutine has started a cycle.
ProcessStart ==
    /\ pc = [t \in Tasks |-> "idle"]
    /\ new_jobs = [t \in Tasks |-> <<>>]
    /\ sent = [t \in Tasks |-> 0]
    /\ result = [t \in Tasks |-> -1]
    /\ cycle = [t \in Tasks |-> NoCycle]
    /\ lastFetch = NoFetch
    /\ life = NoLife

Init ==
    /\ keywords \in KeywordConfigs
    /\ notifications_enabled \in BOOLEAN
    /\ clock = Epoch
    /\ file \in InitFiles
    /\ seen_jobs = load_seen_jobs(file, clock)
    /\ ProcessStart
    /\ lastOp = NoOp
    /\ prevOp = NoOp

\* ------------------------------------------------------------------ cycle
\* A loop that gives up after a cycle whose fetch failed.
StartCycleUnlessFailed(t) ==
    /\ pc[t] = "idle"
    /\ cycle[t].fetched # "none"
    /\ pc' = [pc EXCEPT ![t] = "fetching"]
    /\ new_jobs' = [new_jobs EXCEPT ![t] = <<>>]
    /\ sent' = [sent EXCEPT ![t] = 0]
    /\ result' = [result EXCEPT ![t] = -1]
    /\ cycle' = [cycle EXCEPT ![t] = [NoCycle EXCEPT !.start = DOMAIN seen_jobs]]
    /\ life' = [life EXCEPT !.first =
                   [id \in Ids |-> IF life.first[id] = t THEN "past" ELSE life.first[id]]]
    /\ UNCHANGED <<keywords, notifications_enabled, seen_jobs, file, clock,
                   lastFetch, lastOp, prevOp>>

\* check_for_new_jobs is entered: by background_task's loop (first
\* iteration, or asyncio.sleep is over) or by a GET /check.  It suspends in
\* `await self.scraper.scrape_jobs()`.
StartCycle(t) ==
    /\ pc[t] = "idle"
    /\ pc' = [pc EXCEPT ![t] = "fetching"]
    /\ new_jobs' = [new_jobs EXCEPT ![t] = <<>>]
    /\ sent' = [sent EXCEPT ![t] = 0]
    /\ result' = [result EXCEPT ![t] = -1]
    /\ cycle' = [cycle EXCEPT ![t] = [NoCycle EXCEPT !.start = DOMAIN seen_jobs]]
    /\ life' = [life EXCEPT !.first =
                   [id \in Ids |-> IF life.first[id] = t THEN "past" ELSE life.first[id]]]
    /\ UNCHANGED <<keywords, notifications_enabled, seen_jobs, file, clock,
                   lastFetch, lastOp, prevOp>>

\* How many times the dedup loop over `matching` calls save_job now.
Saves(matching) ==
    Len(dedup(Storage, matching, [i \in 1..Len(matching) |-> "ok"], clock, <<>>).new_jobs)

\* A tracker that never sends.
should_notify_never(new, enabled) == FALSE

\* check_for_new_jobs, "Send notifications": `if new_jobs and
\* self.notifications_enabled`.
should_notify(new, enabled) == new # <<>> /\ enabled

\* scrape_jobs returns and the coroutine runs, without suspending, up to
\* its first send_job_alert (or to its return): filter, dedup loop with
\* save_job for each new posting, then the choice at "Send notifications".
\* html is what fetch_page returned, outcomes[i] what the flush of the
\* i-th save_job does.
Dedup(t, html, outcomes) ==
    LET matching == Matching[keywords][html]
        d == dedup(Storage, matching, outcomes, clock, <<>>)
        notify == should_notify(d.new_jobs, notifications_enabled)
        ids == {job_identity(matching[i]) : i \in 1..Len(matching)}
    IN /\ seen_jobs' = d.seen_jobs
       /\ file' = d.file
       /\ new_jobs' = [new_jobs EXCEPT ![t] = d.new_jobs]
       /\ pc' = [pc EXCEPT ![t] = IF notify THEN "notifying" ELSE "idle"]
       /\ result' = [result EXCEPT ![t] = IF notify THEN -1 ELSE Len(d.new_jobs)]
       /\ cycle' = [cycle EXCEPT ![t] =
                       [fetched |-> IF html.content THEN "content" ELSE "none",
                        start |-> {},
                        ids |-> ids,
                        unseen |-> ids \ cycle[t].start,
                        recorded |-> DOMAIN d.seen_jobs \ DOMAIN seen_jobs,
                        failed |-> 0]]
       /\ life' = [life EXCEPT !.first =
                      [id \in Ids |->
                          IF life.first[id] = "none" /\ id \in ids
                          THEN t ELSE life.first[id]],
                               !.added = life.added \cup
                                   (DOMAIN d.seen_jobs \ DOMAIN seen_jobs)]

\* The observation of a batch that reached the dedup loop.
Observe(t, html) ==
    lastFetch' = [task |-> t,
                  jobs |-> html.listings,
                  before |-> DOMAIN seen_jobs,
                  recorded |-> DOMAIN seen_jobs' \ DOMAIN seen_jobs,
                  repeat |-> lastFetch.task # "none"
                             /\ lastFetch.jobs = html.listings]

FetchReturn(t) ==
    /\ pc[t] = "fetching"
    /\ \E html \in Pages \cup {None} :
       \E outcomes \in [1..Saves(Matching[keywords][html]) -> FlushOutcomes] :
          Dedup(t, html, outcomes)
    /\ UNCHANGED <<keywords, notifications_enabled, clock, sent, lastFetch,
                   lastOp, prevOp>>

\* What the webhook does with one POST: it answers 200/204, it answers
\* another status, or the request raises (connection error, timeout).
DispatchOutcomes == {"ok", "http_error", "exception"}

\* DiscordNotifier.send_webhook: True or False, never an exception.
send_webhook(outcome) == outcome = "ok"

\* A send_job_alert that lets the exception of the request through.
send_job_alert_raising(outcome) ==
    [raised |-> outcome = "exception", delivered |-> outcome = "ok"]

\* DiscordNotifier.send_job_alert: awaits send_webhook and drops its result.
send_job_alert(outcome) ==
    [raised |-> FALSE, delivered |-> send_webhook(outcome)]

\* `await self.notifier.send_job_alert(job)` for the next job of new_jobs:
\* the call is made and the coroutine is suspended until the webhook
\* answers.  After the last job the cycle returns len(new_jobs); an
\* exception out of the call is caught by `except Exception` and the cycle
\* returns 0.
Notify(t) ==
    /\ pc[t] = "notifying"
    /\ sent[t] < Len(new_jobs[t])
    /\ \E outcome \in DispatchOutcomes :
         LET job == new_jobs[t][sent[t] + 1]
             id == job_identity(job)
             alert == send_job_alert(outcome)
             last == sent[t] + 1 = Len(new_jobs[t])
         IN /\ sent' = [sent EXCEPT ![t] = sent[t] + 1]
            /\ life' = [life EXCEPT !.count[id] = life.count[id] + 1,
                                    !.late = IF life.first[id] = t THEN life.late
                                             ELSE life.late \cup {id}]
            /\ cycle' = [cycle EXCEPT ![t].failed =
                            IF ~alert.delivered /\ cycle[t].failed = 0
                            THEN sent[t] + 1 ELSE cycle[t].failed]
            /\ pc' = [pc EXCEPT ![t] =
                         IF alert.raised \/ last THEN "idle" ELSE "notifying"]
            /\ result' = [result EXCEPT ![t] =
                             IF alert.raised THEN 0
                             ELSE IF last THEN Len(new_jobs[t]) ELSE -1]
    /\ UNCHANGED <<keywords, notifications_enabled, seen_jobs, file, clock,
                   new_jobs, lastFetch, lastOp, prevOp>>

\* Time passes.
Tick ==
    /\ clock < LastTick
    /\ clock' = clock + 1
    /\ UNCHANGED <<keywords, notifications_enabled, seen_jobs, file,
                   pc, new_jobs, sent, result, cycle, lastFetch, life, lastOp, prevOp>>

\* The process ends (wherever its coroutines are) and a new one starts
\* with the same configuration: JobStorage() loads the file again.
Restart ==
    /\ seen_jobs' = load_seen_jobs(file, clock)
    /\ pc' = [t \in Tasks |-> "idle"]
    /\ new_jobs' = [t \in Tasks |-> <<>>]
    /\ sent' = [t \in Tasks |-> 0]
    /\ result' = [t \in Tasks |-> -1]
    /\ cycle' = [t \in Tasks |-> NoCycle]
    /\ lastFetch' = NoFetch
    /\ life' = NoLife
    /\ lastOp' = NoOp
    /\ prevOp' = NoOp
    /\ UNCHANGED <<keywords, notifications_enabled, file, clock>>

\* The running service: both coroutines on one event loop.
Next ==
    \/ \E t \in Tasks : StartCycle(t)
    \/ \E t \in Tasks : FetchReturn(t)
    \/ \E t \in Tasks : Notify(t)
    \/ Restart

Spec == Init /\ [][Next]_vars

\* One coroutine (the background task alone), its cycles one after the
\* other, every batch observed.
FetchObserved(t, pages) ==
    /\ pc[t] = "fetching"
    /\ \E html \in pages :
       \E outcomes \in [1..Saves(Matching[keywords][html]) -> FlushOutcomes] :
          /\ Dedup(t, html, outcomes)
          /\ Observe(t, html)
    /\ UNCHANGED <<keywords, notifications_enabled, clock, sent, lastOp, prevOp>>

FetchReturnObserved(t) == FetchObserved(t, Pages \cup {None})

NextCycle ==
    \/ StartCycle("background")
    \/ FetchReturnObserved("background")
    \/ Notify("background")
    \/ Restart

SpecCycle == Init /\ [][NextCycle]_vars

\* One coroutine whose scraper hands it one posting at a time, of every
\* shape of dict.
FetchReturnDict(t) == FetchObserved(t, DictPages)

NextDict ==
    \/ StartCycle("background")
    \/ FetchReturnDict("background")
    \/ Notify("background")
    \/ Restart

SpecDict == Init /\ [][NextDict]_vars

\* The service left to itself: background_task's loop while time passes.
\* asyncio.sleep(check_interval) ends, the fetch ends (session.get has
\* timeout=30, the fallback timeout=10) and the webhook request ends
\* (aiohttp's default total timeout), so each step of the loop that can be
\* taken is taken.  The task is not cancelled and the process not stopped.
NextRun ==
    \/ StartCycle("background")
    \/ FetchReturn("background")
    \/ Notify("background")
    \/ Tick

SpecRun ==
    /\ Init
    /\ [][NextRun]_vars
    /\ WF_vars(StartCycle("background"))
    /\ WF_vars(FetchReturn("background"))
    /\ WF_vars(Notify("background"))
    /\ WF_vars(Tick)

\* One coroutine whose scraper hands it batches that may hold a posting
\* check_for_new_jobs raises on.
raises_in(job, phase) == dict_get(job, "raises", "no") = phase

\* Index of the first job of the list the given phase raises on, 0 if none.
first_raise(jobs, phase) ==
    LET bad == {i \in 1..Len(jobs) : raises_in(jobs[i], phase)}
    IN IF bad = {} THEN 0 ELSE CHOOSE i \in bad : \A j \in bad : i <= j

\* The matching jobs the dedup loop gets through before the cycle raises:
\* none when the filter loop raises (it runs to its end before the dedup
\* loop starts), else those before the first job the dedup loop raises on.
processed(kws, html) ==
    LET matching == Matching[kws][html]
        stop == first_raise(matching, "dedup")
    IN IF first_raise(scrape_jobs(html), "filter") > 0 THEN <<>>
       ELSE SubSeq(matching, 1, stop - 1)

cycle_raises(kws, html) ==
    \/ first_raise(scrape_jobs(html), "filter") > 0
    \/ first_raise(Matching[kws][html], "dedup") > 0

\* scrape_jobs returns and the filter or the dedup loop raises: what the
\* dedup loop saved stays saved, `except Exception` logs and returns 0.
Aborted(t, html, outcomes) ==
    LET done == processed(keywords, html)
        d == dedup(Storage, done, outcomes, clock, <<>>)
        ids == {job_identity(done[i]) : i \in 1..Len(done)}
    IN /\ seen_jobs' = d.seen_jobs
       /\ file' = d.file
       /\ new_jobs' = [new_jobs EXCEPT ![t] = d.new_jobs]
       /\ pc' = [pc EXCEPT ![t] = "idle"]
       /\ result' = [result EXCEPT ![t] = 0]
       /\ cycle' = [cycle EXCEPT ![t] =
                       [fetched |-> "content",
                        start |-> {},
                        ids |-> ids,
                        unseen |-> ids \ cycle[t].start,
                        recorded |-> DOMAIN d.seen_jobs \ DOMAIN seen_jobs,
                        failed |-> 0]]
       /\ life' = [life EXCEPT !.first =
                      [id \in Ids |->
                          IF life.first[id] = "none" /\ id \in ids
                          THEN t ELSE life.first[id]],
                               !.added = life.added \cup
                                   (DOMAIN d.seen_jobs \ DOMAIN seen_jobs)]

FetchReturnMalformed(t) ==
    /\ pc[t] = "fetching"
    /\ \E html \in MalformedPages :
         IF cycle_raises(keywords, html)
         THEN \E outcomes \in [1..Saves(processed(keywords, html)) -> FlushOutcomes] :
                 /\ Aborted(t, html, outcomes)
                 /\ Observe(t, html)
         ELSE \E outcomes \in [1..Saves(Matching[keywords][html]) -> FlushOutcomes] :
                 /\ Dedup(t, html, outcomes)
                 /\ Observe(t, html)
    /\ UNCHANGED <<keywords, notifications_enabled, clock, sent, lastOp, prevOp>>

NextMalformed ==
    \/ StartCycle("background")
    \/ FetchReturnMalformed("background")
    \/ Notify("background")
    \/ Restart

SpecMalformed == Init /\ [][NextMalformed]_vars

\* ------------------------------------------------------------------ store API
\* The store on its own: any caller, any order of calls, while time passes.
ApiIds == {url1, tDriver}
Retentions == 1..MaxRetention

StoreFiles ==
    { Absent,
      ListFile(<<url2, tDriver>>) }

TrackerIdle ==
    UNCHANGED <<keywords, notifications_enabled, pc, new_jobs, sent, result,
                cycle, lastFetch, life>>

\* storage.save_job(job_id)
ApiSaveJob(job_id, outcome) ==
    LET st == save_job(Storage, job_id, clock, outcome)
    IN /\ seen_jobs' = st.seen_jobs
       /\ file' = st.file
       /\ lastOp' = [NoOp EXCEPT !.op = "save_job", !.id = job_id, !.flush = outcome,
                                 !.now = clock, !.before = seen_jobs,
                                 !.memAfter = Cardinality(DOMAIN st.seen_jobs),
                                 !.fileAfter = file_count(st.file)]
       /\ prevOp' = lastOp
       /\ UNCHANGED clock
       /\ TrackerIdle

\* storage.cleanup_old_entries(hours)
ApiCleanup(hours, outcome) ==
    LET st == cleanup_old_entries(Storage, hours, clock, outcome)
    IN /\ seen_jobs' = st.seen_jobs
       /\ file' = st.file
       /\ lastOp' = [NoOp EXCEPT !.op = "cleanup", !.hours = hours,
                                 !.flush = IF st.removed > 0 THEN outcome ELSE "none",
                                 !.now = clock, !.before = seen_jobs,
                                 !.memAfter = Cardinality(DOMAIN st.seen_jobs),
                                 !.fileAfter = file_count(st.file)]
       /\ prevOp' = lastOp
       /\ UNCHANGED clock
       /\ TrackerIdle

\* JobStorage() again: the process restarts and the store loads the file.
ApiLoad ==
    /\ seen_jobs' = load_seen_jobs(file, clock)
    /\ lastOp' = [NoOp EXCEPT !.op = "load", !.now = clock, !.before = seen_jobs,
                              !.memAfter = Cardinality(DOMAIN seen_jobs'),
                              !.fileAfter = file_count(file)]
    /\ prevOp' = lastOp
    /\ UNCHANGED <<file, clock>>
    /\ TrackerIdle

InitStore ==
    /\ keywords = DefaultKeywords
    /\ notifications_enabled = FALSE
    /\ clock = Epoch
    /\ file \in StoreFiles
    /\ seen_jobs = load_seen_jobs(file, clock)
    /\ ProcessStart
    /\ lastOp = [NoOp EXCEPT !.op = "load", !.now = clock,
                             !.memAfter = Cardinality(DOMAIN seen_jobs),
                             !.fileAfter = file_count(file)]
    /\ prevOp = NoOp

NextStore ==
    \/ \E job_id \in ApiIds, outcome \in FlushOutcomes : ApiSaveJob(job_id, outcome)
    \/ \E hours \in Retentions, outcome \in FlushOutcomes : ApiCleanup(hours, outcome)
    \/ ApiLoad
    \/ Tick

SpecStore == InitStore /\ [][NextStore]_vars

\* ------------------------------------------------------------------ matcher
\* The matcher on its own: a tracker built from any JOB_KEYWORDS of
\* RawConfigs, and contains_keywords called on any text of MatchTexts.
wDrive == <<"d", "r", "i", "v", "e">>

\* JOB_KEYWORDS: unset, " Driver, ", "driver,chef", "Chef, , driver ",
\* ", " and "chef".
RawConfigs ==
    { << <<>> >>,
      << <<" ">> \o tDriver, <<" ">> >>,
      << wDriver, <<"c", "h", "e", "f">> >>,
      << tChef, <<" ">>, <<" ">> \o wDriver \o <<" ">> >>,
      << <<>>, <<" ">> >>,
      << <<"c", "h", "e", "f">> >> }

RECURSIVE Concat(_)
Concat(pieces) ==
    IF pieces = <<>> THEN <<>> ELSE Head(pieces) \o Concat(Tail(pieces))

\* Titles and descriptions: up to MaxJobs pieces put together.
MatchTexts ==
    {Concat(ps) : ps \in SeqsUpTo({tDriver, wDriver, tChef, wDrive, <<" ">>, <<"x">>},
                                  MaxJobs)}

InitMatch ==
    /\ \E raw \in RawConfigs :
          /\ keywords = clean_keywords(raw)
          /\ prevOp = [NoOp EXCEPT !.op = "config", !.before = raw]
    /\ notifications_enabled = FALSE
    /\ clock = Epoch
    /\ file = Absent
    /\ seen_jobs = load_seen_jobs(file, clock)
    /\ ProcessStart
    /\ lastOp = NoOp

\* self.contains_keywords(text)
ApiContainsKeywords(text) ==
    /\ lastOp' = [NoOp EXCEPT !.op = "contains_keywords", !.id = text,
                              !.found = contains_keywords(keywords, text)]
    /\ UNCHANGED <<seen_jobs, file, clock, prevOp>>
    /\ TrackerIdle

NextMatch == \E text \in MatchTexts : ApiContainsKeywords(text)

SpecMatch == InitMatch /\ [][NextMatch]_vars

\* ------------------------------------------------------------------ one process
\* One process from its start on: background_task's cycles while time
\* passes, and in between any caller asking the store job_exists.  Nothing
\* in the process calls the sweep.
\* storage.job_exists(job_id)
CallJobExists(job_id) ==
    /\ lastOp' = [NoOp EXCEPT !.op = "job_exists", !.id = job_id,
                              !.found = job_exists(seen_jobs, job_id)]
    /\ UNCHANGED <<seen_jobs, file, clock, prevOp>>
    /\ TrackerIdle

NextProcess ==
    \/ StartCycle("background")
    \/ FetchReturn("background")
    \/ Notify("background")
    \/ \E job_id \in ApiIds : CallJobExists(job_id)
    \/ Tick

SpecProcess == Init /\ [][NextProcess]_vars

\* The service over several process lifetimes: the cycles of one process
\* while time passes, and restarts.
NextLifetimes ==
    \/ StartCycle("background")
    \/ FetchReturn("background")
    \/ Notify("background")
    \/ Tick
    \/ Restart

SpecLifetimes == Init /\ [][NextLifetimes]_vars

\* ------------------------------------------------------------------ load
\* A store built on any file, and the first calls made on it.
LoadFiles ==
    { Absent,
      Corrupt,
      ListFile(<<url2>>),
      DictFile([id \in {url1} |-> isoformat(0)]),
      ScalarFile }

InitLoad ==
    /\ keywords = DefaultKeywords
    /\ notifications_enabled = FALSE
    /\ clock = Epoch
    /\ file \in LoadFiles
    /\ seen_jobs = load_seen_jobs(file, clock)
    /\ ProcessStart
    /\ lastOp = [NoOp EXCEPT !.op = "load", !.now = clock]
    /\ prevOp = NoOp

\* storage.job_exists(job_id) on the loaded store
LoadedJobExists(job_id) ==
    LET raises == not_a_mapping(seen_jobs)
    IN /\ lastOp' = [NoOp EXCEPT !.op = "job_exists", !.id = job_id,
                                 !.flush = IF raises THEN "raised" ELSE "none",
                                 !.found = ~raises /\ job_exists(seen_jobs, job_id)]
       /\ prevOp' = lastOp
       /\ UNCHANGED <<seen_jobs, file, clock>>
       /\ TrackerIdle

\* storage.save_job(job_id) on the loaded store: the assignment raises
\* before save_seen_jobs is reached, or the call goes through.
LoadedSaveJob(job_id, outcome) ==
    LET raises == not_a_mapping(seen_jobs)
        st == IF raises THEN Storage ELSE save_job(Storage, job_id, clock, outcome)
    IN /\ seen_jobs' = st.seen_jobs
       /\ file' = st.file
       /\ lastOp' = [NoOp EXCEPT !.op = "save_job", !.id = job_id,
                                 !.flush = IF raises THEN "raised" ELSE outcome,
                                 !.now = clock]
       /\ prevOp' = lastOp
       /\ UNCHANGED clock
       /\ TrackerIdle

NextLoad ==
    \/ \E job_id \in ApiIds : LoadedJobExists(job_id)
    \/ \E job_id \in ApiIds, outcome \in FlushOutcomes : LoadedSaveJob(job_id, outcome)

SpecLoad == InitLoad /\ [][NextLoad]_vars

\* ------------------------------------------------------------------ claims
\* A coroutine's latest cycle has returned.
Completed(t) == pc[t] = "idle" /\ result[t] >= 0

\* The identities the coroutine's latest cycle has called send_job_alert for.
AlertedIds(t) == {job_identity(new_jobs[t][i]) : i \in 1..sent[t]}

\* C1: within one process lifetime send_job_alert is invoked at most once
\* per identity, however often the identity comes back in later or
\* concurrent cycles, and the invocation is made by the cycle in which the
\* identity first occurred.
NoDuplicateNotification ==
    /\ \A id \in Ids : life.count[id] <= 1
    /\ life.late = {}

\* An identity notified once, first seen in a cycle that is over, and seen
\* again by a cycle that has finished since.
NoDuplicateNotificationWitness ==
    \E id \in Ids, t \in Tasks :
        /\ life.count[id] = 1
        /\ life.first[id] = "past"
        /\ Completed(t)
        /\ id \in cycle[t].ids

\* Both coroutines' latest cycles have finished, both fetched a matching
\* posting with identity id, and id was in the store when neither started.
BothDiscovered(id) ==
    \A t \in Tasks : Completed(t) /\ id \in cycle[t].unseen

RecordedByOne(id) == Cardinality({t \in Tasks : id \in cycle[t].recorded}) = 1

\* C2 as stated: two concurrent cycles that both discover the same unseen
\* identity send exactly one notification for it and leave one store entry.
ConcurrentDiscoveryNotifiesOnce ==
    \A id \in Ids :
        BothDiscovered(id) =>
            /\ life.count[id] = 1
            /\ job_exists(seen_jobs, id)
            /\ RecordedByOne(id)

\* C2 as amended: two concurrent cycles that both discover the same unseen
\* identity record it once (one of the two cycles, one store entry) and
\* notify it once when notifications are enabled, never when they are not.
ConcurrentDiscoveryRecordsOnce ==
    \A id \in Ids :
        BothDiscovered(id) =>
            /\ life.count[id] = (IF notifications_enabled THEN 1 ELSE 0)
            /\ job_exists(seen_jobs, id)
            /\ RecordedByOne(id)

ConcurrentDiscoveryWitness ==
    \E id \in Ids :
        /\ BothDiscovered(id)
        /\ notifications_enabled
        /\ life.count[id] = 1

\* What the spec calls the identity of a posting: the url unless it is
\* empty or missing, then the title.
HasUrl(p) == "url" \in DOMAIN p /\ p.url # <<>>
PostingIdentity(p) == IF HasUrl(p) THEN p.url ELSE p.title

\* Keyword k occurs in text, whatever the case of the text.
Occurs(k, text) ==
    \E i \in 1..Len(text) : \E j \in i..Len(text) : lower(SubSeq(text, i, j)) = k

PostingMatches(p) ==
    \E k \in Range(keywords) : Occurs(k, p.title) \/ Occurs(k, p.description)

\* The identities a cycle over `jobs` has to add to a store holding `before`.
ExpectedRecorded(jobs, before) ==
    {PostingIdentity(jobs[i]) : i \in {n \in 1..Len(jobs) : PostingMatches(jobs[n])}}
        \ before

\* The dedup loop records exactly the matching postings with an unseen
\* identity; a cycle returns the number it recorded; a cycle over the
\* postings of the cycle before it records nothing and returns 0.
CycleRecordsMatches ==
    /\ lastFetch.task # "none" =>
           lastFetch.recorded = ExpectedRecorded(lastFetch.jobs, lastFetch.before)
    /\ \A t \in Tasks :
           Completed(t) => result[t] = Cardinality(cycle[t].recorded)
    /\ (lastFetch.task # "none" /\ lastFetch.repeat) =>
           /\ lastFetch.recorded = {}
           /\ pc[lastFetch.task] = "idle" =>
                  result[lastFetch.task] = 0 /\ sent[lastFetch.task] = 0

\* C9 as stated: a cycle records and notifies exactly the postings that
\* match a keyword in title or description and whose identity is not in the
\* store; non-matching postings are neither recorded nor notified; a second
\* cycle over the same postings records nothing, notifies nothing, returns 0.
CycleRecordsAndNotifiesMatches ==
    /\ CycleRecordsMatches
    /\ \A t \in Tasks : Completed(t) => AlertedIds(t) = cycle[t].recorded

\* C9 as amended: the same, with the notifications sent only when
\* notifications are enabled; when they are disabled the cycle records the
\* same postings and notifies none.
CycleRecordsAndNotifiesWhenEnabled ==
    /\ CycleRecordsMatches
    /\ \A t \in Tasks :
           Completed(t) =>
               AlertedIds(t) = (IF notifications_enabled THEN cycle[t].recorded ELSE {})

\* A second cycle over the same two postings, one matching and one not,
\* after the first one recorded and notified the matching one.
CycleRepeatWitness ==
    /\ lastFetch.task = "background"
    /\ lastFetch.repeat
    /\ Completed("background")
    /\ notifications_enabled
    /\ \E i, j \in 1..Len(lastFetch.jobs) :
           /\ PostingMatches(lastFetch.jobs[i])
           /\ ~PostingMatches(lastFetch.jobs[j])
           /\ life.count[PostingIdentity(lastFetch.jobs[i])] = 1
           /\ ~job_exists(seen_jobs, PostingIdentity(lastFetch.jobs[j]))

\* C10: when fetch_page returns no content the cycle returns 0 to its
\* caller at once, and the step changes neither the store nor the file and
\* calls no send_job_alert.
FetchFailureChangesNothing ==
    [][\A t \in Tasks :
           (pc[t] = "fetching" /\ cycle'[t].fetched = "none") =>
               /\ pc'[t] = "idle"
               /\ result'[t] = 0
               /\ sent'[t] = 0
               /\ seen_jobs' = seen_jobs
               /\ file' = file
               /\ life'.count = life.count]_vars

\* A cycle that has ended on a failed fetch while the store held entries
\* and the other coroutine was in the middle of its own cycle.
FetchFailureWitness ==
    \E t \in Tasks :
        /\ Completed(t)
        /\ cycle[t].fetched = "none"
        /\ result[t] = 0
        /\ seen_jobs # EmptyMap
        /\ \E o \in Tasks \ {t} : pc[o] = "notifying"

EmptyIdentityRejected ==
    (lastFetch.task # "none" /\ Len(lastFetch.jobs) = 1) =>
        LET p == lastFetch.jobs[1]
        IN (~HasUrl(p) /\ p.title = <<>>) =>
               /\ lastFetch.recorded = {}
               /\ new_jobs[lastFetch.task] = <<>>

\* The instant a timestamp text stands for.
FromIso(text) == CHOOSE t \in Instants : isoformat(t) = text

\* C5: cleanup_old_entries(hours) at time now removes exactly the entries
\* whose first_seen is strictly older than now - hours; every other entry,
\* one exactly at the cutoff included, stays with its timestamp.
CleanupRemovesStrictlyOlder ==
    lastOp.op = "cleanup" =>
        seen_jobs =
            [id \in {k \in DOMAIN lastOp.before :
                        FromIso(lastOp.before[k]) >= lastOp.now - lastOp.hours}
                |-> lastOp.before[id]]

LegacyListLoaded ==
    (lastOp.op = "load" /\ file.kind = "list") =>
        \A i \in 1..Len(file.list) :
            /\ job_exists(seen_jobs, file.list[i])
            /\ FromIso(seen_jobs[file.list[i]]) = lastOp.now

\* A legacy file loaded again some time after the process first started.
LegacyListLoadedWitness ==
    /\ lastOp.op = "load"
    /\ file.kind = "list"
    /\ lastOp.now > Epoch
    /\ Len(file.list) >= 2
    /\ \A i \in 1..Len(file.list) : job_exists(seen_jobs, file.list[i])

\* save_job(id) called twice in a row.
RecordedTwice ==
    lastOp.op = "save_job" /\ prevOp.op = "save_job" /\ lastOp.id = prevOp.id

\* C8 as stated: after save_job(id) twice in a row id exists, the store
\* holds as many entries as after the first call, and the file has not
\* grown (a file with as many entries as after the first call has not).
RecordTwiceSameCounts ==
    RecordedTwice =>
        /\ job_exists(seen_jobs, lastOp.id)
        /\ lastOp.memAfter = prevOp.memAfter
        /\ lastOp.fileAfter <= prevOp.fileAfter

\* C8 as amended: after save_job(id) twice in a row id exists and the store
\* holds as many entries as after the first call; the file does too when
\* the flush of both calls succeeded.
RecordTwiceSameCountsWhenFlushed ==
    RecordedTwice =>
        /\ job_exists(seen_jobs, lastOp.id)
        /\ lastOp.memAfter = prevOp.memAfter
        /\ (lastOp.flush = "ok" /\ prevOp.flush = "ok") =>
               lastOp.fileAfter = prevOp.fileAfter

\* Two flushed calls at different times, in a store with another entry.
RecordTwiceWitness ==
    /\ RecordedTwice
    /\ lastOp.flush = "ok"
    /\ prevOp.flush = "ok"
    /\ lastOp.now > prevOp.now
    /\ lastOp.memAfter >= 2
    /\ lastOp.fileAfter = lastOp.memAfter

\* C11: with notifications enabled, a cycle calls send_job_alert for every
\* posting it recorded, also after the dispatch of an earlier posting of
\* the same cycle failed; the postings after the failed one were recorded.
DispatchContinuesAfterFailure ==
    \A t \in Tasks :
        /\ (Completed(t) /\ notifications_enabled) =>
               /\ sent[t] = Len(new_jobs[t])
               /\ result[t] = Len(new_jobs[t])
        /\ pc[t] = "notifying" =>
               \A i \in 1..Len(new_jobs[t]) :
                   job_exists(seen_jobs, job_identity(new_jobs[t][i]))

\* A finished cycle of two new postings whose first dispatch failed and
\* whose second was made.
DispatchContinuesWitness ==
    \E t \in Tasks :
        /\ Completed(t)
        /\ notifications_enabled
        /\ Len(new_jobs[t]) = 2
        /\ cycle[t].failed = 1
        /\ sent[t] = 2
        /\ \A i \in 1..2 : job_exists(seen_jobs, job_identity(new_jobs[t][i]))

\* The postings of a batch that no step raises on.
GoodJobs(jobs) == SelectSeq(jobs, LAMBDA j : "raises" \notin DOMAIN j)

SchedulerKeepsRunning ==
    (pc["background"] = "idle") ~> (pc["background"] = "fetching")

\* The background task between two cycles after a cycle whose fetch
\* failed, and after one whose dispatch failed while the file is cut short
\* by a failed flush.
SchedulerKeepsRunningWitness ==
    /\ Completed("background")
    /\ \/ cycle["background"].fetched = "none"
       \/ cycle["background"].failed > 0 /\ file.kind = "corrupt"
    /\ clock > Epoch

\* C14: loading never fails: with no file and with a file json.load
\* rejects, the store is empty after the load.
LoadDegradesToEmpty ==
    (lastOp.op = "load" /\ file.kind \in {"absent", "corrupt"}) =>
        seen_jobs = EmptyMap

\* A restart on a file cut short by a failed write, of a store that held
\* entries.
LoadDegradesToEmptyWitness ==
    /\ lastOp.op = "load"
    /\ file.kind = "corrupt"
    /\ lastOp.before # EmptyMap
    /\ seen_jobs = EmptyMap

\* C15: a failed flush in save_job leaves the identity in the in-memory
\* store, and the next call whose flush succeeds writes the whole
\* in-memory mapping, the entry whose own flush failed included.
FailedFlushKeepsMemory ==
    /\ lastOp.op = "save_job" => job_exists(seen_jobs, lastOp.id)
    /\ (lastOp.op \in {"save_job", "cleanup"} /\ lastOp.flush = "ok") =>
           file = DictFile(seen_jobs)
    /\ (prevOp.op = "save_job" /\ prevOp.flush # "ok"
          /\ lastOp.op = "save_job" /\ lastOp.flush = "ok") =>
           /\ job_exists(seen_jobs, prevOp.id)
           /\ prevOp.id \in DOMAIN file.dict

\* save_job(a) with a failed flush, then save_job(b) with a good one: the
\* file holds a.
FailedFlushWitness ==
    /\ prevOp.op = "save_job"
    /\ prevOp.flush = "write_failed"
    /\ lastOp.op = "save_job"
    /\ lastOp.flush = "ok"
    /\ lastOp.id # prevOp.id
    /\ file.kind = "dict"
    /\ prevOp.id \in DOMAIN file.dict

\* C16: the flush is all-or-nothing: the file is at every moment a
\* complete mapping, and after a call on the store it is the file of
\* before the call or the dump of the store after it.
FlushAllOrNothing ==
    /\ file.kind # "corrupt"
    /\ (lastOp.op \in {"save_job", "cleanup"} /\ lastOp.flush = "ok") =>
           file = DictFile(seen_jobs)

\* An entry older than a retention window of one tick.
StaleEntry(id) ==
    job_exists(seen_jobs, id) /\ FromIso(seen_jobs[id]) < clock - 1

\* C17: while the scheduler keeps running, every entry older than the
\* retention window is eventually removed from the store.
RetentionEventuallySweeps ==
    \A id \in Ids : StaleEntry(id) ~> ~job_exists(seen_jobs, id)

\* The configured keywords: the entries of JOB_KEYWORDS trimmed and
\* lowered, without those that are empty after trimming.
Configured(raw) == {lower(strip(raw[i])) : i \in 1..Len(raw)} \ {<<>>}

\* C18: contains_keywords returns exactly the configured keywords that
\* occur in the text as a substring whatever the case: nothing for the empty
\* text, every keyword that occurs and not only the first; a keyword that
\* is empty after trimming is not in the loaded set and never returned.
MatcherReturnsOccurring ==
    lastOp.op = "contains_keywords" =>
        LET text == lastOp.id
            raw == prevOp.before
        IN /\ Range(lastOp.found) = {k \in Range(keywords) : Occurs(k, text)}
           /\ text = <<>> => lastOp.found = <<>>
           /\ <<>> \notin Range(keywords)
           /\ <<>> \notin Range(lastOp.found)
           /\ Configured(raw) # {} => Range(keywords) = Configured(raw)

\* Two keywords found in a text with a capital, by a tracker whose
\* JOB_KEYWORDS held a blank entry.
MatcherWitness ==
    /\ lastOp.op = "contains_keywords"
    /\ Cardinality(Range(lastOp.found)) = 2
    /\ lastOp.id # lower(lastOp.id)
    /\ \E i \in 1..Len(prevOp.before) : strip(prevOp.before[i]) = <<>>

\* No coroutine is inside a cycle.
NoCycleInProgress == \A t \in Tasks : pc[t] = "idle"

SweepFlushesOnceIfRemoved ==
    [][(lastOp'.op = "cleanup" /\ clock' = clock) =>
          LET removed == Cardinality(DOMAIN seen_jobs) - Cardinality(DOMAIN seen_jobs')
          IN /\ removed = 0 => file' = file
             /\ removed > 0 =>
                    \E outcome \in FlushOutcomes :
                        file' = save_seen_jobs(seen_jobs', file, outcome)
             /\ (removed > 0 /\ lastOp'.flush = "ok") =>
                    file' = DictFile(seen_jobs')]_vars

\* A sweep that removed two entries at once and flushed what was left,
\* over a file in the legacy format.
SweepFlushesWitness ==
    /\ lastOp.op = "cleanup"
    /\ lastOp.flush = "ok"
    /\ Cardinality(DOMAIN lastOp.before) >= lastOp.memAfter + 2
    /\ file = DictFile(seen_jobs)

\* C21: an identity stays in the in-memory store of a process that runs
\* no sweep: no step of a cycle (job_exists, save_job, a failed flush, a
\* failed dispatch), no job_exists call and no passing of time removes one,
\* and a job_exists call leaves store and file as they are.
KeptUntilSwept ==
    [][/\ \A id \in DOMAIN seen_jobs : job_exists(seen_jobs', id)
       /\ lastOp' # lastOp => seen_jobs' = seen_jobs /\ file' = file]_vars

\* job_exists finds an identity this process added, after a dispatch
\* failed, a flush cut the file short and time passed.
KeptUntilSweptWitness ==
    /\ lastOp.op = "job_exists"
    /\ lastOp.found
    /\ lastOp.id \in life.added
    /\ file.kind = "corrupt"
    /\ cycle["background"].failed > 0
    /\ clock > Epoch

\* C22: after every save_job and every sweep whose flush succeeded, the
\* file holds exactly the in-memory mapping, identities and timestamps,
\* whatever calls came before and whatever their flushes did; loading it
\* gives the mapping back.
PersistedEqualsMemoryAfterFlush ==
    (lastOp.op \in {"save_job", "cleanup"} /\ lastOp.flush = "ok") =>
        /\ file.kind = "dict"
        /\ DOMAIN file.dict = DOMAIN seen_jobs
        /\ \A id \in DOMAIN seen_jobs : file.dict[id] = seen_jobs[id]
        /\ load_seen_jobs(file, clock) = seen_jobs

\* A flushed sweep that removed the old entries and kept a newer one whose
\* own flush had failed.
PersistedEqualsMemoryWitness ==
    /\ lastOp.op = "cleanup"
    /\ lastOp.flush = "ok"
    /\ prevOp.op = "save_job"
    /\ prevOp.flush = "write_failed"
    /\ job_exists(seen_jobs, prevOp.id)
    /\ Cardinality(DOMAIN lastOp.before) > lastOp.memAfter
    /\ file = DictFile(seen_jobs)

\* C23: whatever the file holds, the loaded store is a mapping from
\* identity to timestamp, and a job_exists or save_job that follows does not
\* raise.
LoadedStoreIsMapping ==
    lastOp.op \in {"job_exists", "save_job"} =>
        /\ lastOp.flush # "raised"
        /\ ~not_a_mapping(seen_jobs)

\* C24 as stated: the timestamp of an identity is set by the cycle that
\* first records it and by nothing else: as long as the identity is in the
\* store no later cycle and no other step changes it.
FirstSeenNeverReset ==
    [][\A id \in DOMAIN seen_jobs \cap DOMAIN seen_jobs' :
           seen_jobs'[id] = seen_jobs[id]]_vars

\* C24 as amended: no cycle changes the timestamp of an identity that is
\* in the store; it changes only when a restart loads a file in the legacy
\* list format, which stamps every listed identity with the load time.
FirstSeenResetOnlyByLegacyLoad ==
    [][\A id \in DOMAIN seen_jobs \cap DOMAIN seen_jobs' :
           seen_jobs'[id] # seen_jobs[id] =>
               /\ file.kind = "list"
               /\ seen_jobs' = load_seen_jobs(file, clock)
               /\ file' = file]_vars

\* An identity this process recorded in an earlier cycle, seen again by a
\* later cycle at a later time, with the timestamp of its recording.
FirstSeenWitness ==
    \E id \in life.added :
        /\ life.first[id] = "past"
        /\ Completed("background")
        /\ id \in cycle["background"].ids
        /\ FromIso(seen_jobs[id]) < clock

====
